---- MODULE Spec2Model ----
(***************************************************************************)
(* Model of the legal-structure parser of src/model_law_processor.py:     *)
(* normalize_text, TOKEN_PATTERN, classify_level, parse_legal_structure   *)
(* and collapse_table_of_contents.                                         *)
(*                                                                         *)
(* A Python str is modelled as a sequence of one-character strings.       *)
(* Offsets are 0-based as in Python: Char(s, i) is s[i] and Slice(s, a, b) *)
(* is s[a:b].  Node dicts live in an arena (nodes) and lists of dicts are  *)
(* sequences of arena indices, which keeps Python's reference semantics:  *)
(* the stack and the tree share the node they both hold.                   *)
(***************************************************************************)
EXTENDS Integers, Sequences, FiniteSets, TLC

VARIABLES
    pc,        \* position in process() / in the function under test
    raw,       \* raw_text handed to normalize_text
    text,      \* clean_text handed to parse_legal_structure
    matches,   \* list(TOKEN_PATTERN.finditer(text)): records [start, end]
    i,         \* loop index of parse_legal_structure
    level,     \* local `level` of the current iteration
    nodes,     \* arena of node dicts [marker, text, children]
    span,      \* per node, the locals start/end it was sliced with
    root,      \* local `root` of parse_legal_structure
    stack,     \* local `stack` of parse_legal_structure
    out,       \* root sequence returned by collapse_table_of_contents
    out2,      \* root sequence returned by a second collapse pass
    token,     \* argument of classify_level
    outcome    \* how classify_level ended

vars == <<pc, raw, text, matches, i, level, nodes, span, root, stack,
          out, out2, token, outcome>>

----------------------------------------------------------------------------
(* Character classes of Python's re for the ASCII range.                   *)

Digits == {"0", "1", "2", "3", "4", "5", "6", "7", "8", "9"}

Upper == {"A", "B", "C", "D", "E", "F", "G", "H", "I", "J", "K", "L", "M",
          "N", "O", "P", "Q", "R", "S", "T", "U", "V", "W", "X", "Y", "Z"}

Lower == {"a", "b", "c", "d", "e", "f", "g", "h", "i", "j", "k", "l", "m",
          "n", "o", "p", "q", "r", "s", "t", "u", "v", "w", "x", "y", "z"}

Whitespace == {" ", "\t", "\n", "\r", "\f"}

Blank == {" ", "\t"}

WordChars == Upper \cup Lower \cup Digits \cup {"_"}

SectionWord == <<"S", "e", "c", "t", "i", "o", "n">>

----------------------------------------------------------------------------
(* str primitives.                                                         *)

Char(s, k) == s[k + 1]

Slice(s, a, b) == SubSeq(s, a + 1, b)

Min(S) == CHOOSE x \in S : \A y \in S : x <= y

Max(S) == CHOOSE x \in S : \A y \in S : x >= y

\* First index >= a whose character is outside set cs (len(s) if none):
\* where a greedy repetition of the class cs that starts at a ends.
RECURSIVE SkipWhile(_, _, _)
SkipWhile(s, a, cs) ==
    IF a < Len(s) /\ Char(s, a) \in cs THEN SkipWhile(s, a + 1, cs) ELSE a

\* First index >= a holding character c (len(s) if none).
IndexOf(s, a, c) ==
    IF a >= Len(s) THEN a
    ELSE Min({k \in a..(Len(s) - 1) : Char(s, k) = c} \cup {Len(s)})

\* str.strip()
Strip(s) ==
    LET keep == {k \in 0..(Len(s) - 1) : Char(s, k) \notin Whitespace}
    IN  IF keep = {} THEN <<>> ELSE Slice(s, Min(keep), Max(keep) + 1)

\* s.startswith(p) at offset a
StartsWithAt(s, a, p) ==
    /\ a + Len(p) <= Len(s)
    /\ Slice(s, a, a + Len(p)) = p

\* str.split("\n")
RECURSIVE SplitLines(_, _)
SplitLines(s, a) ==
    LET n == IndexOf(s, a, "\n")
    IN  IF n >= Len(s) THEN <<Slice(s, a, Len(s))>>
        ELSE <<Slice(s, a, n)>> \o SplitLines(s, n + 1)

\* "\n".join(parts)
RECURSIVE JoinLines(_, _)
JoinLines(parts, k) ==
    IF k > Len(parts) THEN <<>>
    ELSE IF k = Len(parts) THEN parts[k]
    ELSE parts[k] \o <<"\n">> \o JoinLines(parts, k + 1)

----------------------------------------------------------------------------
(* The four marker shapes.  Each operator gives the offset just after the  *)
(* shape matched at offset a, or -1 when it does not match there.  In     *)
(* every shape the greedy repetition is followed by a character outside   *)
(* its class, so the greedy match is the only one a backtracking engine   *)
(* can find.                                                               *)

\* Section\s+\d+\.
MatchSection(s, a) ==
    IF ~StartsWithAt(s, a, SectionWord) THEN -1
    ELSE LET b == a + Len(SectionWord)
             c == SkipWhile(s, b, Whitespace)
             d == SkipWhile(s, c, Digits)
         IN  IF c > b /\ d > c /\ d < Len(s) /\ Char(s, d) = "."
             THEN d + 1 ELSE -1

\* [A-Z]\.
MatchUpperDot(s, a) ==
    IF a + 1 < Len(s) /\ Char(s, a) \in Upper /\ Char(s, a + 1) = "."
    THEN a + 2 ELSE -1

\* \(\d+\)
MatchParenDigits(s, a) ==
    IF a < Len(s) /\ Char(s, a) = "("
    THEN LET d == SkipWhile(s, a + 1, Digits)
         IN  IF d > a + 1 /\ d < Len(s) /\ Char(s, d) = ")" THEN d + 1 ELSE -1
    ELSE -1

\* \([a-z]\)
MatchParenLower(s, a) ==
    IF /\ a + 2 < Len(s)
       /\ Char(s, a) = "("
       /\ Char(s, a + 1) \in Lower
       /\ Char(s, a + 2) = ")"
    THEN a + 3 ELSE -1

\* \s+(?=[A-Z]) after a parenthesised marker ending at e
SpaceThenCapital(s, e) ==
    IF e < 0 THEN -1
    ELSE LET f == SkipWhile(s, e, Whitespace)
         IN  IF f > e /\ f < Len(s) /\ Char(s, f) \in Upper THEN f ELSE -1

----------------------------------------------------------------------------
(* normalize_text                                                          *)

\* re.sub(r"(\w+)-\n(\w+)", r"\1\2", text), the search resuming at offset a.
\* A match is a word run, "-\n" at offset w, and the word run after it; the
\* leftmost match from a is the one with the least w whose first group has
\* a character at or after a.  A match consumes both word runs, so the run
\* that ended one match cannot begin the next.
RECURSIVE Dehyphenate(_, _)
Dehyphenate(s, a) ==
    LET hyphens == {w \in (a + 1)..(Len(s) - 3) :
                        /\ Char(s, w) = "-"
                        /\ Char(s, w + 1) = "\n"
                        /\ Char(s, w - 1) \in WordChars
                        /\ Char(s, w + 2) \in WordChars}
    IN  IF hyphens = {} THEN Slice(s, a, Len(s))
        ELSE LET w  == Min(hyphens)
                 w2 == SkipWhile(s, w + 2, WordChars)
             IN  Slice(s, a, w) \o Slice(s, w + 2, w2) \o Dehyphenate(s, w2)

\* re.match(r"^(Section\s+\d+\.|[A-Z]\.|\(\d+\)|\([a-z]\))", stripped)
StartsWithMarker(stripped) ==
    \/ MatchSection(stripped, 0) >= 0
    \/ MatchUpperDot(stripped, 0) >= 0
    \/ MatchParenDigits(stripped, 0) >= 0
    \/ MatchParenLower(stripped, 0) >= 0

\* The loop over lines, from line k on, with the list rebuilt so far.
RECURSIVE Rebuild(_, _, _)
Rebuild(lines, k, rebuilt) ==
    IF k > Len(lines) THEN rebuilt
    ELSE LET stripped == Strip(lines[k])
         IN  IF stripped = <<>> THEN Rebuild(lines, k + 1, rebuilt)
             ELSE IF StartsWithMarker(stripped)
             THEN Rebuild(lines, k + 1, Append(rebuilt, <<"\n">> \o stripped))
             ELSE IF rebuilt # <<>>
             THEN Rebuild(lines, k + 1,
                          [rebuilt EXCEPT ![Len(rebuilt)] = @ \o <<" ">> \o stripped])
             ELSE Rebuild(lines, k + 1, <<stripped>>)

\* re.sub(r"[ \t]+", " ", text): every maximal run of blanks becomes one
\* space, so a blank that follows a blank is dropped and the first of a run
\* is written as a space.
CollapseBlanks(s) ==
    LET indexed == [k \in 1..Len(s) |-> [at |-> k, ch |-> s[k]]]
        Kept(p) == ~(p.ch \in Blank /\ p.at > 1 /\ s[p.at - 1] \in Blank)
        kept    == SelectSeq(indexed, Kept)
    IN  [k \in 1..Len(kept) |-> IF kept[k].ch \in Blank THEN " " ELSE kept[k].ch]

normalize_text(t) ==
    LET lines   == SplitLines(Dehyphenate(t, 0), 0)
        rebuilt == Rebuild(lines, 1, <<>>)
    IN  Strip(CollapseBlanks(JoinLines(rebuilt, 1)))

----------------------------------------------------------------------------
(* TOKEN_PATTERN                                                           *)

\* Mutant of AtLineStart: the pattern without its ^ anchor.
AtLineStart_Unanchored(s, a) == TRUE

\* (?m)^ : offset a is the start of the text or follows a newline.
AtLineStart(s, a) == a = 0 \/ Char(s, a - 1) = "\n"

\* End of the TOKEN_PATTERN match that starts at offset a, or -1.
TokenMatchEnd(s, a) ==
    IF ~AtLineStart(s, a) THEN -1
    ELSE LET b  == SkipWhile(s, a, Whitespace)
             e1 == MatchSection(s, b)
             e2 == MatchUpperDot(s, b)
             e3 == SpaceThenCapital(s, MatchParenDigits(s, b))
             e4 == SpaceThenCapital(s, MatchParenLower(s, b))
         IN  IF e1 >= 0 THEN e1
             ELSE IF e2 >= 0 THEN e2
             ELSE IF e3 >= 0 THEN e3
             ELSE e4

\* list(TOKEN_PATTERN.finditer(text)), the search resuming at offset a: the
\* leftmost offset where the pattern matches, then on from that match's end.
RECURSIVE FindIter(_, _)
FindIter(s, a) ==
    LET starts == {p \in a..(Len(s) - 1) : TokenMatchEnd(s, p) >= 0}
    IN  IF starts = {} THEN <<>>
        ELSE LET p == Min(starts)
                 e == TokenMatchEnd(s, p)
             IN  <<[start |-> p, end |-> e]>> \o FindIter(s, e)

----------------------------------------------------------------------------
(* classify_level                                                          *)

classify_level(tok) ==
    LET t == Strip(tok)
    IN  IF StartsWithAt(t, 0, SectionWord) THEN 1
        ELSE IF Len(t) = 2 /\ MatchUpperDot(t, 0) = 2 THEN 2
        ELSE IF Len(t) > 0 /\ MatchParenDigits(t, 0) = Len(t) THEN 3
        ELSE IF Len(t) = 3 /\ MatchParenLower(t, 0) = 3 THEN 4
        ELSE 0

----------------------------------------------------------------------------
(* parse_legal_structure: pieces of one loop iteration                     *)

\* Mutant of SpanEnd: the next match's end() taken for its start().
SpanEnd_NextMatchEnd(ms, k, s) ==
    IF k + 1 < Len(ms) THEN ms[k + 2].end ELSE Len(s)

\* matches[i + 1].start() if i + 1 < len(matches) else len(text)
SpanEnd(ms, k, s) ==
    IF k + 1 < Len(ms) THEN ms[k + 2].start ELSE Len(s)

\* Mutant of ShouldPop: > written for >=.
ShouldPop_Strict(st, lv) == Len(st) > lv

\* while len(stack) >= level
ShouldPop(st, lv) == Len(st) >= lv

\* Mutant of AppendChild: the node inserted at the front of the children.
AppendChild_AtFront(ns, parent, node) ==
    [ns EXCEPT ![parent].children = <<node>> \o @]

\* stack[-1]["children"].append(node)
AppendChild(ns, parent, node) ==
    [ns EXCEPT ![parent].children = Append(@, node)]

----------------------------------------------------------------------------
(* collapse_table_of_contents                                              *)

TocTextLimit == 200

TocMarker ==
    <<"T", "O", "C">>

TocText ==
    <<"T", "a", "b", "l", "e", " ", "o", "f", " ", "C", "o", "n", "t", "e",
      "n", "t", "s">>

\* Mutant of is_flat_section: only the length test is left.
is_flat_section_LengthOnly(node) == Len(node.text) < TocTextLimit

is_flat_section(node) ==
    /\ StartsWithAt(node.marker, 0, SectionWord)
    /\ Len(node.children) = 0
    /\ Len(node.text) < TocTextLimit

\* Number of entries the scan collects from rs[k..] before it breaks.
RECURSIVE TocRun(_, _, _)
TocRun(ns, rs, k) ==
    IF k <= Len(rs) /\ is_flat_section(ns[rs[k]])
    THEN 1 + TocRun(ns, rs, k + 1) ELSE 0

\* toc_entries after the scan
TocEntries(ns, rs) == SubSeq(rs, 1, TocRun(ns, rs, 1))

\* body_start_index after the scan: set only by the branch that breaks.
BodyStartIndex(ns, rs) ==
    LET run == TocRun(ns, rs, 1)
    IN  IF run < Len(rs) THEN run ELSE 0

\* The arena after the call: the toc_node dict is created when entries exist.
CollapseArena(ns, rs) ==
    IF TocEntries(ns, rs) # <<>>
    THEN Append(ns, [marker   |-> TocMarker,
                     text     |-> TocText,
                     children |-> TocEntries(ns, rs)])
    ELSE ns

\* The returned list: [toc_node] + nodes[body_start_index:], or nodes.
CollapseRoots(ns, rs) ==
    IF TocEntries(ns, rs) # <<>>
    THEN <<Len(ns) + 1>> \o SubSeq(rs, BodyStartIndex(ns, rs) + 1, Len(rs))
    ELSE rs

----------------------------------------------------------------------------
(* Views of the arena used to state properties.                            *)

\* The subtree of node id as a value.
RECURSIVE Tree(_, _)
Tree(ns, id) ==
    [marker   |-> ns[id].marker,
     text     |-> ns[id].text,
     children |-> [k \in 1..Len(ns[id].children) |->
                       Tree(ns, ns[id].children[k])]]

Forest(ns, rs) == [k \in 1..Len(rs) |-> Tree(ns, rs[k])]

\* Pre-order traversal of the forest rs, from its k-th tree on.
RECURSIVE Preorder(_, _, _)
Preorder(ns, rs, k) ==
    IF k > Len(rs) THEN <<>>
    ELSE <<rs[k]>> \o Preorder(ns, ns[rs[k]].children, 1) \o Preorder(ns, rs, k + 1)

LevelOf(ns, id) == classify_level(ns[id].marker)

Last(s) == s[Len(s)]

----------------------------------------------------------------------------
(* process(): normalize_text, parse_legal_structure, collapse              *)

NoOutcome == [kind |-> "none", value |-> 0]

Normalize ==
    /\ pc = "start"
    /\ text' = normalize_text(raw)
    /\ pc' = "normalized"
    /\ UNCHANGED <<raw, matches, i, level, nodes, span, root, stack, out, out2,
                   token, outcome>>

ParseBegin ==
    /\ pc = "normalized"
    /\ matches' = FindIter(text, 0)
    /\ root' = <<>>
    /\ stack' = <<>>
    /\ i' = 0
    /\ pc' = "loop"
    /\ UNCHANGED <<raw, text, level, nodes, span, out, out2, token, outcome>>

\* Lines 132-145: slice the span, classify the marker, build the node.
LoopHead ==
    /\ pc = "loop"
    /\ i < Len(matches)
    /\ LET m       == matches[i + 1]
           tok     == Strip(Slice(text, m.start, m.end))
           start   == m.start
           end     == SpanEnd(matches, i, text)
           content == Strip(Slice(text, start, end))
       IN  /\ nodes' = Append(nodes, [marker   |-> tok,
                                      text     |-> content,
                                      children |-> <<>>])
           /\ span' = Append(span, [start |-> start, end |-> end])
           /\ level' = classify_level(tok)
    /\ pc' = "pop"
    /\ UNCHANGED <<raw, text, matches, i, root, stack, out, out2, token, outcome>>

\* Lines 147-148: one turn of the while loop; list.pop() of an empty list
\* raises IndexError.
Pop ==
    /\ pc = "pop"
    /\ ShouldPop(stack, level)
    /\ IF stack = <<>>
       THEN /\ pc' = "IndexError"
            /\ UNCHANGED stack
       ELSE /\ stack' = SubSeq(stack, 1, Len(stack) - 1)
            /\ UNCHANGED pc
    /\ UNCHANGED <<raw, text, matches, i, level, nodes, span, root, out, out2,
                   token, outcome>>

\* Lines 150-155: attach the node just built (the last of the arena), push it.
Attach ==
    /\ pc = "pop"
    /\ ~ShouldPop(stack, level)
    /\ LET node == Len(nodes)
       IN  /\ IF stack # <<>>
              THEN /\ nodes' = AppendChild(nodes, Last(stack), node)
                   /\ UNCHANGED root
              ELSE /\ root' = Append(root, node)
                   /\ UNCHANGED nodes
           /\ stack' = Append(stack, node)
    /\ i' = i + 1
    /\ pc' = "loop"
    /\ UNCHANGED <<raw, text, matches, level, span, out, out2, token, outcome>>

ParseReturn ==
    /\ pc = "loop"
    /\ i = Len(matches)
    /\ pc' = "parsed"
    /\ UNCHANGED <<raw, text, matches, i, level, nodes, span, root, stack, out,
                   out2, token, outcome>>

Collapse ==
    /\ pc = "parsed"
    /\ nodes' = CollapseArena(nodes, root)
    /\ out' = CollapseRoots(nodes, root)
    /\ pc' = "collapsed"
    /\ UNCHANGED <<raw, text, matches, i, level, span, root, stack, out2, token,
                   outcome>>

\* The collapse pass applied to its own result.
CollapseAgain ==
    /\ pc = "collapsed"
    /\ nodes' = CollapseArena(nodes, out)
    /\ out2' = CollapseRoots(nodes, out)
    /\ pc' = "recollapsed"
    /\ UNCHANGED <<raw, text, matches, i, level, span, root, stack, out, token,
                   outcome>>

\* classify_level called on its own.
Classify ==
    /\ pc = "classify"
    /\ outcome' = [kind |-> "returned", value |-> classify_level(token)]
    /\ pc' = "classified"
    /\ UNCHANGED <<raw, text, matches, i, level, nodes, span, root, stack, out,
                   out2, token>>

----------------------------------------------------------------------------
(* Inputs of process(): up to MaxLines lines drawn from a palette.         *)

MaxLines == 5

\* 'Section 1. Ab'
LineSection ==
    <<"S", "e", "c", "t", "i", "o", "n", " ", "1", ".", " ", "A", "b">>

\* 'A. Cd'
LineUpper ==
    <<"A", ".", " ", "C", "d">>

\* ' (1)  Ef'
LineDigit ==
    <<" ", "(", "1", ")", " ", " ", "E", "f">>

\* '(a) Gh'
LineLower ==
    <<"(", "a", ")", " ", "G", "h">>

\* 'see (2) Of'
LinePlain ==
    <<"s", "e", "e", " ", "(", "2", ")", " ", "O", "f">>

Palette == <<LineSection, LineUpper, LineDigit, LineLower, LinePlain>>

RawInputs ==
    { JoinLines([k \in DOMAIN f |-> Palette[f[k]]], 1) :
        f \in UNION { [1..n -> 1..Len(Palette)] : n \in 0..MaxLines } }

Init ==
    /\ pc = "start"
    /\ raw \in RawInputs
    /\ text = <<>>
    /\ matches = <<>>
    /\ i = 0
    /\ level = 0
    /\ nodes = <<>>
    /\ span = <<>>
    /\ root = <<>>
    /\ stack = <<>>
    /\ out = <<>>
    /\ out2 = <<>>
    /\ token = <<>>
    /\ outcome = NoOutcome

Next ==
    \/ Normalize
    \/ ParseBegin
    \/ LoopHead
    \/ Pop
    \/ Attach
    \/ ParseReturn
    \/ Collapse

Spec == Init /\ [][Next]_vars

----------------------------------------------------------------------------
(* Scenario inputs: the three-line text of Scenario A and its neighbours.  *)
(* The third line is 'Section 3. ' + n x's + sep1 + '(1) ' + word +        *)
(* ' point' + sep2 + '(a) Sub' + (' ' or '-\n') + 'point.'.                 *)

\* 'Section 1. Short summary.'
ScenarioLine1 ==
    <<"S", "e", "c", "t", "i", "o", "n", " ", "1", ".", " ", "S", "h", "o",
      "r", "t", " ", "s", "u", "m", "m", "a", "r", "y", ".">>

\* 'Section 2. Another short one.'
ScenarioLine2 ==
    <<"S", "e", "c", "t", "i", "o", "n", " ", "2", ".", " ", "A", "n", "o",
      "t", "h", "e", "r", " ", "s", "h", "o", "r", "t", " ", "o", "n", "e",
      ".">>

\* 'Section 3. '
ScenarioHead3 ==
    <<"S", "e", "c", "t", "i", "o", "n", " ", "3", ".", " ">>

\* '(1) '
ScenarioOne ==
    <<"(", "1", ")", " ">>

\* 'First'
ScenarioFirst ==
    <<"F", "i", "r", "s", "t">>

\* 'first'
ScenarioLowerFirst ==
    <<"f", "i", "r", "s", "t">>

\* ' point'
ScenarioPoint ==
    <<" ", "p", "o", "i", "n", "t">>

\* '(a) Sub'
ScenarioSub ==
    <<"(", "a", ")", " ", "S", "u", "b">>

\* 'point.'
ScenarioTail ==
    <<"p", "o", "i", "n", "t", ".">>

Repeat(c, n) == [k \in 1..n |-> c]

ScenarioLine3(n, sep1, word, sep2, hyphen) ==
    ScenarioHead3 \o Repeat("x", n) \o sep1 \o ScenarioOne \o word
        \o ScenarioPoint \o sep2 \o ScenarioSub
        \o (IF hyphen THEN <<"-", "\n">> ELSE <<" ">>) \o ScenarioTail

ScenarioText(n, sep1, word, sep2, hyphen) ==
    ScenarioLine1 \o <<"\n">> \o ScenarioLine2 \o <<"\n">>
        \o ScenarioLine3(n, sep1, word, sep2, hyphen)

\* The input of Scenario A itself.
ScenarioA == ScenarioText(250, <<" ">>, ScenarioFirst, <<" ">>, FALSE)

\* Scenario A with '(1)' and '(a)' each moved to the start of a line.
ScenarioAOwnLines == ScenarioText(250, <<"\n">>, ScenarioFirst, <<"\n">>, FALSE)

XCounts == {0, 150, 250}

Separators == {<<" ">>, <<"\n">>}

ScenarioInputs ==
    { ScenarioText(n, sep1, word, sep2, hyphen) :
        n \in XCounts, sep1 \in Separators,
        word \in {ScenarioFirst, ScenarioLowerFirst},
        sep2 \in Separators, hyphen \in BOOLEAN }

InitScenario ==
    /\ pc = "start"
    /\ raw \in ScenarioInputs
    /\ text = <<>>
    /\ matches = <<>>
    /\ i = 0
    /\ level = 0
    /\ nodes = <<>>
    /\ span = <<>>
    /\ root = <<>>
    /\ stack = <<>>
    /\ out = <<>>
    /\ out2 = <<>>
    /\ token = <<>>
    /\ outcome = NoOutcome

SpecScenarioA == InitScenario /\ [][Next]_vars

----------------------------------------------------------------------------
(* collapse_table_of_contents on arbitrary root sequences: up to MaxRoots  *)
(* roots, each a Section or an 'A.' node, childless or with one child,     *)
(* with a text one character under the limit or exactly at it.             *)

MaxRoots == 3

\* 'Section 1.'
MarkerSection1 ==
    <<"S", "e", "c", "t", "i", "o", "n", " ", "1", ".">>

\* 'A.'
MarkerUpperA ==
    <<"A", ".">>

\* '(1)'
MarkerOne ==
    <<"(", "1", ")">>

RootKinds == [section : BOOLEAN, kids : 0..1, long : BOOLEAN]

\* marker followed by filler up to n characters
Padded(marker, n) == marker \o <<" ">> \o Repeat("x", n - Len(marker) - 1)

\* The arena for root kinds ks: roots 1..n, then the children of the roots
\* that have one, in root order.
TocArena(ks) ==
    LET n        == Len(ks)
        withKid  == {j \in 1..n : ks[j].kids = 1}
        kidOf(j) == n + Cardinality({k \in withKid : k <= j})
        mk(j)    == IF ks[j].section THEN MarkerSection1 ELSE MarkerUpperA
    IN  [id \in 1..(n + Cardinality(withKid)) |->
            IF id <= n
            THEN [marker   |-> mk(id),
                  text     |-> Padded(mk(id),
                                      IF ks[id].long THEN TocTextLimit
                                      ELSE TocTextLimit - 1),
                  children |-> IF ks[id].kids = 1 THEN <<kidOf(id)>> ELSE <<>>]
            ELSE [marker   |-> MarkerOne,
                  text     |-> Padded(MarkerOne, 6),
                  children |-> <<>>]]

InitToc ==
    /\ pc = "parsed"
    /\ \E n \in 0..MaxRoots :
         \E ks \in [1..n -> RootKinds] :
            /\ nodes = TocArena(ks)
            /\ root = [k \in 1..n |-> k]
    /\ raw = <<>>
    /\ text = <<>>
    /\ matches = <<>>
    /\ i = 0
    /\ level = 0
    /\ span = <<>>
    /\ stack = <<>>
    /\ out = <<>>
    /\ out2 = <<>>
    /\ token = <<>>
    /\ outcome = NoOutcome

NextToc ==
    \/ Collapse
    \/ CollapseAgain

SpecToc == InitToc /\ [][NextToc]_vars

----------------------------------------------------------------------------
(* classify_level on arbitrary marker strings: each core as it is, with a  *)
(* leading blank, or with a trailing newline.                              *)

ClassifyCores ==
    { <<"S", "e", "c", "t", "i", "o", "n", " ", "1", ".">>,
      <<"S", "e", "c", "t", "i", "o", "n", " ", " ", "2", "7", ".">>,
      <<"S", "e", "c", "t", "i", "o", "n">>,
      <<"S", "e", "c", "t", "i", "o", "n", "a", "l">>,
      <<"s", "e", "c", "t", "i", "o", "n", " ", "1", ".">>,
      <<"A", ".">>,
      <<"Z", ".">>,
      <<"a", ".">>,
      <<"A", "B", ".">>,
      <<"A">>,
      <<".">>,
      <<"(", "1", ")">>,
      <<"(", "1", "2", ")">>,
      <<"(", ")">>,
      <<"(", "1">>,
      <<"1", ")">>,
      <<"(", "1", "a", ")">>,
      <<"(", "a", ")">>,
      <<"(", "z", ")">>,
      <<"(", "A", ")">>,
      <<"(", "a", "b", ")">>,
      <<"(", "a", ")", ".">>,
      <<"T", "O", "C">>,
      <<>>,
      <<"1", ".">>,
      <<"T", "a", "b", "l", "e", " ", "o", "f", " ", "C", "o", "n", "t", "e",
        "n", "t", "s">> }

ClassifyInputs ==
    ClassifyCores
        \cup { <<" ">> \o c : c \in ClassifyCores }
        \cup { c \o <<"\n">> : c \in ClassifyCores }

InitClassify ==
    /\ pc = "classify"
    /\ token \in ClassifyInputs
    /\ raw = <<>>
    /\ text = <<>>
    /\ matches = <<>>
    /\ i = 0
    /\ level = 0
    /\ nodes = <<>>
    /\ span = <<>>
    /\ root = <<>>
    /\ stack = <<>>
    /\ out = <<>>
    /\ out2 = <<>>
    /\ outcome = NoOutcome

NextClassify == Classify

SpecClassify == InitClassify /\ [][NextClassify]_vars

----------------------------------------------------------------------------
(* Properties.                                                             *)

\* States inside or just after the pass of parse_legal_structure.
InPass == pc \in {"loop", "pop", "parsed"}

\* The node built by the current (pc = "pop") or the last finished
\* (pc = "loop", i >= 1) iteration: the newest node of the arena.
Newest == Len(nodes)

IsSectionMarker(m) == Len(m) >= 7 /\ SubSeq(m, 1, 7) = SectionWord

\* Depth of node id in the forest rs (roots at depth 1), 0 when absent.
RECURSIVE DepthIn(_, _, _)
DepthIn(ns, rs, id) ==
    IF \E k \in 1..Len(rs) : rs[k] = id THEN 1
    ELSE LET below == {DepthIn(ns, ns[rs[k]].children, id) : k \in 1..Len(rs)} \ {0}
         IN  IF below = {} THEN 0 ELSE 1 + Min(below)

\* C1: in the forest returned by parse_legal_structure every direct child's
\* level is strictly greater than its parent's level.
C1_NestingInvariant ==
    pc = "parsed" =>
        \A id \in 1..Len(nodes) :
            \A k \in 1..Len(nodes[id].children) :
                LevelOf(nodes, nodes[id].children[k]) > LevelOf(nodes, id)

\* C2: parse_legal_structure creates exactly one node per marker, node k
\* owning the span from the k-th marker's offset to the next marker's offset
\* (end of text for the last), its text being that span stripped; the spans
\* follow one another without gap or overlap up to the end of the text; and a
\* pre-order traversal of the returned forest visits the nodes in marker
\* order.
C2_Partition ==
    pc = "parsed" =>
        LET n == Len(matches)
        IN  /\ Len(nodes) = n
            /\ Len(span) = n
            /\ \A k \in 1..n :
                 /\ span[k].start = matches[k].start
                 /\ span[k].start < span[k].end
                 /\ span[k].end = (IF k < n THEN matches[k + 1].start ELSE Len(text))
                 /\ nodes[k].text = Strip(SubSeq(text, span[k].start + 1, span[k].end))
            /\ Preorder(nodes, root, 1) = [k \in 1..n |-> k]

\* C2 witness: three or more markers, text before the first one, and a
\* forest that is not flat.
C2_Witness ==
    /\ pc = "parsed"
    /\ Len(matches) >= 3
    /\ matches[1].start > 0
    /\ Len(root) >= 2
    /\ Len(root) < Len(matches)

\* The leading run of roots that qualify as table-of-contents entries:
\* marker starts with Section, no children, text shorter than 200 characters.
Qualifies(node) ==
    /\ IsSectionMarker(node.marker)
    /\ node.children = <<>>
    /\ Len(node.text) < 200

LeadingRun(ns, rs) ==
    Max({q \in 0..Len(rs) : \A j \in 1..q : Qualifies(ns[rs[j]])})

\* C3: with p the length of the leading run of qualifying roots, the collapse
\* returns the roots unchanged when p = 0 and otherwise a new TOC node whose
\* children are the first p roots, followed by the roots from index p on,
\* so that every input root appears exactly once in the output.
C3_TocReplacement ==
    pc = "collapsed" =>
        LET p == LeadingRun(nodes, root)
        IN  IF p = 0 THEN out = root
            ELSE /\ out = <<out[1]>> \o SubSeq(root, p + 1, Len(root))
                 /\ nodes[out[1]].marker = TocMarker
                 /\ nodes[out[1]].children = SubSeq(root, 1, p)

\* C4: collapsing an already collapsed root sequence changes nothing, and
\* the synthetic TOC node does not qualify as an entry.
C4_CollapseIdempotent ==
    pc = "recollapsed" =>
        /\ out2 = out
        /\ Forest(nodes, out2) = Forest(nodes, out)
        /\ \A k \in 1..Len(out) :
             nodes[out[k]].marker = TocMarker => ~is_flat_section(nodes[out[k]])

\* C4 witness: the second pass has run on a sequence the first pass wrapped.
C4_Witness ==
    /\ pc = "recollapsed"
    /\ Len(out) >= 2
    /\ nodes[out[1]].marker = TocMarker
    /\ Len(nodes[out[1]].children) >= 2

\* The shape Scenario A is said to produce: a TOC node with the children
\* Section 1 and Section 2, then Section 3 with the child (1), which has the
\* child (a).
ScenarioAShape(f) ==
    /\ Len(f) = 2
    /\ f[1].marker = TocMarker
    /\ Len(f[1].children) = 2
    /\ f[1].children[1].marker = MarkerSection1
    /\ f[1].children[2].marker = <<"S", "e", "c", "t", "i", "o", "n", " ", "2", ".">>
    /\ f[2].marker = <<"S", "e", "c", "t", "i", "o", "n", " ", "3", ".">>
    /\ Len(f[2].children) = 1
    /\ f[2].children[1].marker = MarkerOne
    /\ classify_level(f[2].children[1].marker) = 3
    /\ Len(f[2].children[1].children) = 1
    /\ f[2].children[1].children[1].marker = <<"(", "a", ")">>
    /\ classify_level(f[2].children[1].children[1].marker) = 4

\* C5 as stated: the pipeline run on the Scenario A input yields a TOC node
\* with the children Section 1 and Section 2, then Section 3 with a level-3
\* child (1) that has a level-4 child (a).
C5_ScenarioA_AsStated ==
    (pc = "collapsed" /\ raw = ScenarioA) => ScenarioAShape(Forest(nodes, out))

\* C5 amended: the pipeline run on the Scenario A input yields a TOC node
\* with the children Section 1 and Section 2, then one root Section 3 that
\* has no children and whose text is the whole third line; the nested shape
\* is what the input with '(1)' and '(a)' at line starts yields.
C5_ScenarioA_Amended ==
    /\ (pc = "collapsed" /\ raw = ScenarioA) =>
         LET f == Forest(nodes, out)
         IN  /\ Len(f) = 2
             /\ f[1].marker = TocMarker
             /\ Len(f[1].children) = 2
             /\ f[1].children[1].marker = MarkerSection1
             /\ f[1].children[1].children = <<>>
             /\ f[1].children[2].marker = <<"S", "e", "c", "t", "i", "o", "n", " ", "2", ".">>
             /\ f[1].children[2].children = <<>>
             /\ f[2].marker = <<"S", "e", "c", "t", "i", "o", "n", " ", "3", ".">>
             /\ f[2].children = <<>>
             /\ f[2].text = ScenarioLine3(250, <<" ">>, ScenarioFirst, <<" ">>, FALSE)
    /\ (pc = "collapsed" /\ raw = ScenarioAOwnLines) =>
         ScenarioAShape(Forest(nodes, out))

\* C5 witness: the pipeline has finished on the Scenario A input.
C5_Witness ==
    /\ pc = "collapsed"
    /\ raw = ScenarioA
    /\ Len(matches) = 3
    /\ Len(out) = 2

\* The four marker shapes, after trimming: Section prefix, one uppercase
\* letter and a period, parenthesised digits, parenthesised lowercase letter.
KnownShape(tok) ==
    LET t == Strip(tok)
    IN  \/ IsSectionMarker(t)
        \/ Len(t) = 2 /\ t[1] \in Upper /\ t[2] = "."
        \/ /\ Len(t) >= 3
           /\ t[1] = "("
           /\ t[Len(t)] = ")"
           /\ \A k \in 2..(Len(t) - 1) : t[k] \in Digits
        \/ Len(t) = 3 /\ t[1] = "(" /\ t[2] \in Lower /\ t[3] = ")"

\* C6: classify_level ends in an error for a marker of none of the four
\* shapes, and returns a level in 1..4 for every other marker.
C6_ClassifierFailsLoudly ==
    pc = "classified" =>
        IF KnownShape(token)
        THEN outcome.kind = "returned" /\ outcome.value \in 1..4
        ELSE outcome.kind = "raised"

\* C7: at every point of the pass the stack's entries are in strictly
\* increasing level from bottom to top (so no two have the same level).
C7_StackLevelsIncreasing ==
    InPass =>
        \A j \in 1..(Len(stack) - 1) :
            LevelOf(nodes, stack[j]) < LevelOf(nodes, stack[j + 1])

\* C8: the step that attaches a node with a Section marker finds the stack
\* empty, appends the node to the root sequence, leaves every node's
\* children as they were, and leaves the stack holding exactly that node.
C8_SectionClosesAll ==
    [][(pc = "pop" /\ pc' = "loop" /\ IsSectionMarker(nodes[Newest].marker)) =>
          /\ stack = <<>>
          /\ root' = Append(root, Newest)
          /\ nodes' = nodes
          /\ stack' = <<Newest>>]_vars

\* C8 witness: a Section node was attached after a node that had been
\* attached as a child two levels down, and the stack holds only it.
C8_Witness ==
    /\ pc = "loop"
    /\ i >= 3
    /\ IsSectionMarker(nodes[Newest].marker)
    /\ stack = <<Newest>>
    /\ Last(root) = Newest
    /\ DepthIn(nodes, root, Newest - 1) >= 3

\* C9: the stack never holds more than 4 entries.
C9_StackDepthBounded == Len(stack) <= 4

\* C9 witness: the stack holds 4 entries after a fifth marker was processed.
C9_Witness ==
    /\ pc = "loop"
    /\ i >= 5
    /\ Len(stack) = 4

\* C10: after each marker is processed the stack is the path from the last
\* root down to the node just created, each entry the last child of the one
\* below, and the node's depth, which is the stack's length, is at most its
\* level; in the returned forest no node lies deeper than its level.
C10_StackIsPath ==
    /\ (pc = "loop" /\ i >= 1) =>
         /\ stack # <<>>
         /\ stack[1] = Last(root)
         /\ \A j \in 1..(Len(stack) - 1) :
              /\ nodes[stack[j]].children # <<>>
              /\ stack[j + 1] = Last(nodes[stack[j]].children)
         /\ Last(stack) = Newest
         /\ DepthIn(nodes, root, Newest) = Len(stack)
         /\ Len(stack) <= LevelOf(nodes, Newest)
    /\ pc = "parsed" =>
         \A id \in 1..Len(nodes) :
             /\ DepthIn(nodes, root, id) >= 1
             /\ DepthIn(nodes, root, id) <= LevelOf(nodes, id)

\* C10 witness: a level-4 node was attached at depth 2 as the third marker
\* or later.
C10_Witness ==
    /\ pc = "loop"
    /\ i >= 3
    /\ Len(stack) = 2
    /\ LevelOf(nodes, Newest) = 4

====
